---- MODULE Spec2Model ----
(***************************************************************************)
(* Model of mdsynthesis/core/bundle.py: the member table of a Bundle       *)
(* (_BundleBackend) and the operations add_member, del_member, get_member  *)
(* and get_members_*.                                                      *)
(*                                                                         *)
(* The member table is one ordered sequence of rows.  add_member reaches   *)
(* it as self.table (a list of dicts); del_member, get_member and the      *)
(* get_members_* family reach it as the node '/members' of self.handle (a  *)
(* PyTables table).  Both are modelled by the variable table: a sequence   *)
(* of records with the columns uuid, name, containertype and abspath.      *)
(* Row numbers (nrow) are 0-based as in the source; row n is table[n+1].   *)
(*                                                                         *)
(* The collections that hold the table are modelled as well: Bundle.add    *)
(* and Bundle._list on the lists _uuids and _containers, and               *)
(* _CollectionBase.add, which hands its containers to add_member.          *)
(***************************************************************************)
EXTENDS Integers, Sequences, FiniteSets, TLC

\* ------------------------------------------------------------------------
\* Bounds and input domains
\* ------------------------------------------------------------------------

\* Most rows the table is allowed to grow to.
MaxRows == 3

\* Most positional uuids given to one del_member call.
MaxArgs == 2

\* uuids of containers (strings).
Ids == {"u1", "u2", "u3"}

Names == {"n1", "n2"}

ContainerTypes == {"Sim", "Group"}

\* Locations as callers give them: relative and absolute forms.
Locations == {"./data", "/cwd/data", "/abs/data"}

\* The containers whose uuid, name, containertype and location add_member
\* is given: u1 in every combination of name, type and location, u2 and u3
\* as one Group each in a relative and an absolute location.
Containers ==
    [uuid : {"u1"}, name : Names, containertype : ContainerTypes, location : Locations]
    \cup [uuid : {"u2", "u3"}, name : {"n2"}, containertype : {"Group"},
          location : {"./data", "/abs/data"}]

\* What del_member and get_member are given as a uuid: a string, or an
\* object (such as uuid.UUID) whose str() is the uuid's text.
UuidArgs == [form : {"str"}, text : Ids] \cup [form : {"obj"}, text : {"u1"}]

RECURSIVE SeqsUpTo(_, _)
SeqsUpTo(S, n) ==
    IF n = 0 THEN {<<>>}
    ELSE LET shorter == SeqsUpTo(S, n - 1)
         IN shorter \cup {Append(s, x) : s \in {q \in shorter : Len(q) = n - 1}, x \in S}

Range(s) == {s[i] : i \in 1..Len(s)}

\* The positional arguments of one del_member call.
DelArgs == SeqsUpTo(UuidArgs, MaxArgs)

\* ------------------------------------------------------------------------
\* Pure helpers of the source
\* ------------------------------------------------------------------------

\* os.path.abspath(location): a relative path is joined to the working
\* directory and normalised; an absolute path is returned as it is.
AbsPath(location) ==
    CASE location = "./data"    -> "/cwd/data"
      [] location = "/cwd/data" -> "/cwd/data"
      [] location = "/abs/data" -> "/abs/data"

\* str(uid) in del_member, and '{}'.format(uuid) in get_member.
Str(uid) == uid.text

\* list.index(item): position (0-based) of the first element equal to item.
ListIndex(t, item) ==
    (CHOOSE i \in 1..Len(t) : t[i] = item /\ \A j \in 1..(i - 1) : t[j] # item) - 1

\* The rows 0..Len(t)-1 of t, as a sequence.
RowNumbers(t) == [i \in 1..Len(t) |-> i - 1]

\* A mutant of MatchingIndex: the presence test never finds the uuid.
MatchingIndexNone(t, uuid) == <<>>

\* [ self.table.index(item) for item in self.table if item['uuid'] == uuid ]
MatchingIndex(t, uuid) ==
    LET Match(n) == t[n + 1].uuid = uuid
        hits == SelectSeq(RowNumbers(t), Match)
    IN [k \in 1..Len(hits) |-> ListIndex(t, t[hits[k] + 1])]

\* A mutant of AppendMember: the new row is put first instead of last.
AppendMemberFront(t, newmem) == <<newmem>> \o t

\* self.table.append(newmem)
AppendMember(t, newmem) == Append(t, newmem)

\* newmem of add_member
NewMem(uuid, name, containertype, location) ==
    [uuid |-> uuid, name |-> name, containertype |-> containertype,
     abspath |-> AbsPath(location)]

\* The body of add_member.  With the uuid present, index is a non-empty
\* list and self.table[index] subscripts a list with a list: TypeError, and
\* nothing has been assigned.
add_member(t, uuid, name, containertype, location) ==
    LET index == MatchingIndex(t, uuid)
    IN IF index # <<>>
       THEN [table |-> t, raised |-> "TypeError"]
       ELSE [table |-> AppendMember(t, NewMem(uuid, name, containertype, location)),
             raised |-> "none"]

\* ------------------------------------------------------------------------
\* del_member
\* ------------------------------------------------------------------------

\* A mutant of RecreateTable: the old members table is not removed.
RecreateTableKeepsRows(t) == t

\* table.remove() followed by create_table('/', 'members', ...): a new,
\* empty members table.
RecreateTable(t) == <<>>

\* uuids = set([ str(uid) for uid in uuid ])
UuidSet(args) == {Str(args[k]) : k \in 1..Len(args)}

\* The matching rows: for row in table, for uuid in uuids, row.nrow is
\* appended when row['uuid'] == uuid.  The elements of a set are distinct, so
\* a row is appended at most once, and rows are visited in table order.
RowList(t, uuids) ==
    LET Match(n) == \E u \in uuids : t[n + 1].uuid = u
    IN SelectSeq(RowNumbers(t), Match)

\* rowlist.sort(): ascending order (insertion sort).
RECURSIVE SortAsc(_)
SortAsc(s) ==
    IF Len(s) <= 1 THEN s
    ELSE LET rest == SortAsc(Tail(s))
             Smaller(x) == x < Head(s)
             NotSmaller(x) == ~(x < Head(s))
         IN SelectSeq(rest, Smaller) \o <<Head(s)>> \o SelectSeq(rest, NotSmaller)

\* A mutant of ShiftedIndex: the register is not shifted.
ShiftedIndexNoShift(i, j) == i

\* The row passed to remove_row for the original row i once j rows have
\* been deleted: i-j.
ShiftedIndex(i, j) == i - j

\* table.remove_row(n) of PyTables.  A table cannot be emptied by row
\* removal ("a limitation of PyTables"): removing the only row raises
\* NotImplementedError and removes nothing.  A row number outside the table
\* selects no row.
RemoveRow(t, n) ==
    IF n < 0 \/ n >= Len(t)
    THEN [table |-> t, raised |-> "none"]
    ELSE IF Len(t) = 1
    THEN [table |-> t, raised |-> "NotImplementedError"]
    ELSE [table |-> SubSeq(t, 1, n) \o SubSeq(t, n + 2, Len(t)), raised |-> "none"]

\* for i in rowlist: table.remove_row(i-j); j=j+1   (k is the loop position)
RECURSIVE RemoveLoop(_, _, _, _)
RemoveLoop(t, rowlist, k, j) ==
    IF k > Len(rowlist)
    THEN [table |-> t, raised |-> "none"]
    ELSE LET r == RemoveRow(t, ShiftedIndex(rowlist[k], j))
         IN IF r.raised # "none" THEN r
            ELSE RemoveLoop(r.table, rowlist, k + 1, j + 1)

\* A mutant of AllRowsMatch: the separate condition for removing every row
\* is left out.
AllRowsMatchNever(rowlist, t) == FALSE

\* len(rowlist) == table.nrows
AllRowsMatch(rowlist, t) == Len(rowlist) = Len(t)

\* The body of del_member(*uuid, all=purge).
del_member(t, args, purge) ==
    IF purge
    THEN [table |-> RecreateTable(t), raised |-> "none"]
    ELSE LET uuids == UuidSet(args)
             rowlist == RowList(t, uuids)
         IN IF AllRowsMatch(rowlist, t)
            THEN [table |-> RecreateTable(t), raised |-> "none"]
            ELSE RemoveLoop(t, SortAsc(rowlist), 1, 0)

\* ------------------------------------------------------------------------
\* get_member and the get_members_* family
\* ------------------------------------------------------------------------

\* [ row.nrow for row in table.where("uuid=='{}'".format(uuid)) ]
RowNum(t, uuid) ==
    LET Match(n) == t[n + 1].uuid = Str(uuid)
    IN SelectSeq(RowNumbers(t), Match)

\* A mutant of get_member: rownum[0] is read without the presence test.
get_member_unchecked(t, uuid) ==
    LET rownum == RowNum(t, uuid)
    IN IF rownum # <<>>
       THEN [ret |-> <<t[rownum[1] + 1]>>, raised |-> "none"]
       ELSE [ret |-> <<>>, raised |-> "IndexError"]

\* The body of get_member: memberinfo is the row rownum[0] with all its
\* columns, or None.  The result is <<memberinfo>>, and <<>> for None.
get_member(t, uuid) ==
    LET rownum == RowNum(t, uuid)
    IN IF rownum # <<>>
       THEN [ret |-> <<t[rownum[1] + 1]>>, raised |-> "none"]
       ELSE [ret |-> <<>>, raised |-> "none"]

\* [ x['uuid'] for x in table.iterrows() ]
get_members_uuid(t) == [i \in 1..Len(t) |-> t[i].uuid]

\* [ x['name'] for x in table.iterrows() ]
get_members_name(t) == [i \in 1..Len(t) |-> t[i].name]

\* [ x['containertype'] for x in table.iterrows() ]
get_members_containertype(t) == [i \in 1..Len(t) |-> t[i].containertype]

\* [ x[path] for x in table.iterrows() ] with path = 'abspath'
get_members_location(t) == [i \in 1..Len(t) |-> t[i].abspath]

\* ------------------------------------------------------------------------
\* State
\* ------------------------------------------------------------------------

VARIABLES
    table,      \* the member table: self.table, the node '/members'
    last,       \* the most recent call: its name, arguments and outcome
    before,     \* the table when the most recent call began (history)
    addOrder,   \* the uuids of the present rows in the order their rows
                \* were appended (history)
    access,     \* durable form: the access each process holds to the store
    pc,         \* durable form: where each process is in its call
    frame,      \* durable form: the call of each process and its locals
    committed,  \* durable form: the table as the last finished mutating
                \* call left it, and how that call ended (history)
    serial,     \* durable form: the table had the mutating calls that
                \* returned run one after another (history)
    self,       \* collection: the class of the object and its attributes
                \* _uuids and _containers
    coll,       \* collection: the most recent call on the object, its
                \* arguments and outcome, the object and the table when
                \* it began (history)
    returned    \* collection: the list the caller holds from _list()

vars ==
    <<table, last, before, addOrder, access, pc, frame, committed, serial,
      self, coll, returned>>

\* The variables of the calls of one process on its own table.
svars == <<last, before, addOrder>>

\* The variables of the processes that share a durable store.
dvars == <<access, pc, frame, committed, serial>>

\* The variables of a collection object.
cvars == <<self, coll, returned>>

\* The processes that open the same store.
Procs == {"p1", "p2"}

UuidsOf(t) == {t[i].uuid : i \in 1..Len(t)}

\* The uuids a del_member call is given, as text.
Given(args) == {args[k].text : k \in 1..Len(args)}

NoArg == [form |-> "none", text |-> ""]

NoContainer == [uuid |-> "", name |-> "", containertype |-> "", location |-> ""]

\* The locals of a call that has not begun.
NoFrame ==
    [op |-> "none", c |-> NoContainer, args |-> <<>>, purge |-> FALSE, arg |-> NoArg,
     index |-> <<>>, rowlist |-> <<>>, j |-> 0, ret |-> <<>>, saved |-> <<>>]

\* The record kept of a call: its name, its arguments (uuid, name,
\* containertype, location of add_member; args, purge of del_member; arg of
\* get_member), the exception it raised, what it returned, and what the call
\* before it was: "purge" (del_member with purge), "full" (del_member
\* without purge, given exactly the uuids of the table) or "other".
\* readded: an add_member, directly after a purge, of a uuid the purge
\* removed.
Call(op) ==
    [op |-> op, uuid |-> "", name |-> "", containertype |-> "", location |-> "",
     args |-> <<>>, purge |-> FALSE, arg |-> NoArg,
     raised |-> "none", ret |-> <<>>,
     follows |-> IF last.op = "del_member" /\ last.purge THEN "purge"
                 ELSE IF last.op = "del_member" /\ Given(last.args) = UuidsOf(before)
                 THEN "full" ELSE "other",
     readded |-> FALSE]

\* _BundleBackend.__init__: self.table = list()
\* A Bundle as Bundle.__init__ leaves it when it calls self.add: the
\* backend is assigned; _uuids and _containers are assigned nowhere in the
\* class.
Constructed ==
    [cls |-> "Bundle", has_lists |-> FALSE, uuids |-> <<>>, containers |-> <<>>]

\* No call has been made on the collection yet.
NoCollCall ==
    [op |-> "init", items |-> <<>>, raised |-> "none", before |-> Constructed,
     tbefore |-> <<>>]

\* The caller holds no list from _list().
NoReturned ==
    [valid |-> FALSE, items |-> <<>>, same |-> FALSE, original |-> <<>>,
     mutated |-> FALSE]

\* The backend as _BundleBackend.__init__ leaves it, and no process in a
\* call.
InitBackend ==
    /\ table = <<>>
    /\ last = [op |-> "init", uuid |-> "", name |-> "", containertype |-> "",
               location |-> "", args |-> <<>>, purge |-> FALSE, arg |-> NoArg,
               raised |-> "none", ret |-> <<>>, follows |-> "other",
               readded |-> FALSE]
    /\ before = <<>>
    /\ addOrder = <<>>
    /\ access = [p \in Procs |-> "none"]
    /\ pc = [p \in Procs |-> "idle"]
    /\ frame = [p \in Procs |-> NoFrame]
    /\ committed = [table |-> <<>>, op |-> "none", removed |-> {},
                    failed |-> FALSE, partial |-> FALSE]
    /\ serial = <<>>

Init ==
    /\ InitBackend
    /\ self = Constructed
    /\ coll = NoCollCall
    /\ returned = NoReturned

\* add_member(uuid, name, containertype, location)
AddMember(uuid, name, containertype, location) ==
    LET out == add_member(table, uuid, name, containertype, location)
    IN /\ Len(out.table) <= MaxRows
       /\ table' = out.table
       /\ last' = [Call("add_member") EXCEPT !.uuid = uuid, !.name = name,
                       !.containertype = containertype, !.location = location,
                       !.readded = last.op = "del_member" /\ last.purge
                                     /\ uuid \in UuidsOf(before),
                       !.raised = out.raised]
       /\ before' = table
       /\ addOrder' = IF uuid \in Range(addOrder) THEN addOrder
                      ELSE Append(addOrder, uuid)
       /\ UNCHANGED <<dvars, cvars>>

\* del_member(*args, all=purge)
DelMember(args, purge) ==
    LET out == del_member(table, args, purge)
        Kept(u) == ~purge /\ u \notin Given(args)
    IN /\ table' = out.table
       /\ last' = [Call("del_member") EXCEPT !.args = args, !.purge = purge,
                       !.raised = out.raised]
       /\ before' = table
       /\ addOrder' = SelectSeq(addOrder, Kept)
       /\ UNCHANGED <<dvars, cvars>>

\* get_member(arg)
GetMember(arg) ==
    LET out == get_member(table, arg)
    IN /\ last' = [Call("get_member") EXCEPT !.arg = arg, !.raised = out.raised,
                       !.ret = out.ret]
       /\ before' = table
       /\ UNCHANGED <<table, addOrder>>
    /\ UNCHANGED <<dvars, cvars>>
       /\ UNCHANGED <<dvars, cvars>>

\* get_members_uuid()
GetMembersUuid ==
    /\ last' = [Call("get_members_uuid") EXCEPT !.ret = get_members_uuid(table)]
    /\ before' = table
    /\ UNCHANGED <<table, addOrder>>
    /\ UNCHANGED <<dvars, cvars>>

\* get_members_name()
GetMembersName ==
    /\ last' = [Call("get_members_name") EXCEPT !.ret = get_members_name(table)]
    /\ before' = table
    /\ UNCHANGED <<table, addOrder>>
    /\ UNCHANGED <<dvars, cvars>>

\* get_members_containertype()
GetMembersContainertype ==
    /\ last' = [Call("get_members_containertype")
                    EXCEPT !.ret = get_members_containertype(table)]
    /\ before' = table
    /\ UNCHANGED <<table, addOrder>>
    /\ UNCHANGED <<dvars, cvars>>

\* get_members_location()
GetMembersLocation ==
    /\ last' = [Call("get_members_location")
                    EXCEPT !.ret = get_members_location(table)]
    /\ before' = table
    /\ UNCHANGED <<table, addOrder>>
    /\ UNCHANGED <<dvars, cvars>>

Next ==
    \/ \E c \in Containers : AddMember(c.uuid, c.name, c.containertype, c.location)
    \/ \E args \in DelArgs, purge \in BOOLEAN : DelMember(args, purge)
    \/ \E arg \in UuidArgs : GetMember(arg)
    \/ GetMembersUuid
    \/ GetMembersName
    \/ GetMembersContainertype
    \/ GetMembersLocation

Spec == Init /\ [][Next]_vars

\* ------------------------------------------------------------------------
\* Properties of the member table (checked under Spec)
\* ------------------------------------------------------------------------

StrArg(uuid) == [form |-> "str", text |-> uuid]

\* The row add_member is to store for the arguments of the call c.
RowOf(c) ==
    [uuid |-> c.uuid, name |-> c.name, containertype |-> c.containertype,
     abspath |-> AbsPath(c.location)]

\* C1: after any sequence of add_member and del_member calls no two rows of
\* the table have the same uuid; add_member with a uuid that is present
\* never appends a second row for it.
C1_NoDuplicateIds ==
    /\ \A i, j \in 1..Len(table) : i # j => table[i].uuid # table[j].uuid
    /\ (last.op = "add_member" /\ last.uuid \in UuidsOf(before))
        => Len(table) = Len(before)

\* An add_member call met its uuid in a table of two or more rows.
C1_Witness ==
    /\ last.op = "add_member"
    /\ last.uuid \in UuidsOf(before)
    /\ Len(before) >= 2

\* C2: add_member with a uuid that is already in the table completes
\* without raising, sets that row's abspath to the absolute form of the new
\* location, and leaves that row's name and containertype, every other row,
\* the number of rows and their order unchanged.
C2_UpdateInPlace ==
    (last.op = "add_member" /\ last.uuid \in UuidsOf(before))
    => /\ last.raised = "none"
       /\ Len(table) = Len(before)
       /\ \A i \in 1..Len(before) :
            table[i] = IF before[i].uuid = last.uuid
                       THEN [before[i] EXCEPT !.abspath = AbsPath(last.location)]
                       ELSE before[i]

\* C3: del_member without purge removes exactly the rows whose uuid is among
\* the given ones, ignores given uuids that are not in the table without an
\* error, and keeps the remaining rows in their order.
C3_DelRemovesExactly ==
    (last.op = "del_member" /\ ~last.purge)
    => LET Stays(row) == row.uuid \notin Given(last.args)
       IN /\ last.raised = "none"
          /\ table = SelectSeq(before, Stays)

\* del_member(u2) on u1, u2, u3: the middle row is removed and u1, u3
\* remain in order.
C3_Witness ==
    /\ last.op = "del_member"
    /\ ~last.purge
    /\ get_members_uuid(before) = <<"u1", "u2", "u3">>
    /\ Given(last.args) = {"u2"}
    /\ get_members_uuid(table) = <<"u1", "u3">>

C6_RoundTrip ==
    last.op = "add_member"
    => get_member(table, StrArg(last.uuid)).ret = <<RowOf(last)>>

\* C7: get_member for a uuid that is not in the table returns None without
\* raising and leaves the table unchanged.
C7_GetAbsent ==
    (last.op = "get_member" /\ last.arg.text \notin UuidsOf(before))
    => /\ last.raised = "none"
       /\ last.ret = <<>>
       /\ table = before

\* get_member of an absent uuid on a table that has rows.
C7_Witness ==
    /\ last.op = "get_member"
    /\ last.arg.text \notin UuidsOf(before)
    /\ Len(before) >= 2
    /\ last.ret = <<>>

ReadOps ==
    {"get_member", "get_members_uuid", "get_members_name",
     "get_members_containertype", "get_members_location"}

\* The calls that assign to the table.
Mutating(op) == op \in {"add_member", "del_member"}

\* A mutant of TransactionOf: add_member is decorated as a reader.
TransactionOfAddAsRead(op) == IF op = "del_member" THEN "write" ELSE "read"

\* A mutant of TransactionOf: del_member is decorated as a reader.
TransactionOfDelAsRead(op) == IF op = "add_member" THEN "write" ELSE "read"

\* The decorator of each method: @File._write_state on add_member and
\* del_member, @File._read_state on get_member and get_members_*.
TransactionOf(op) ==
    IF op \in {"add_member", "del_member"} THEN "write" ELSE "read"

\* The access a transaction holds.
AccessOf(kind) == IF kind = "write" THEN "exclusive" ELSE "shared"

\* Exclusive access is granted when no other process holds any access,
\* shared access when no other process holds exclusive access; otherwise
\* the caller blocks.
MayAcquire(p, kind) ==
    IF kind = "write"
    THEN \A q \in Procs \ {p} : access[q] = "none"
    ELSE \A q \in Procs \ {p} : access[q] # "exclusive"

\* The containers added to the shared store: each uuid as one Group, in a
\* relative or an absolute location.
DurableContainers ==
    {c \in Containers : c.name = "n2" /\ c.containertype = "Group"}

\* The calls a process makes on the store.
DurableCalls ==
    {[NoFrame EXCEPT !.op = "add_member", !.c = c] : c \in DurableContainers}
    \cup {[NoFrame EXCEPT !.op = "del_member", !.args = args, !.purge = purge] :
            args \in DelArgs, purge \in BOOLEAN}
    \cup {[NoFrame EXCEPT !.op = "get_member", !.arg = arg] : arg \in UuidArgs}
    \cup {[NoFrame EXCEPT !.op = op] : op \in ReadOps \ {"get_member"}}

\* The first statement of each method body.
Entry(op) ==
    CASE op = "add_member" -> "add_check"
      [] op = "del_member" -> "del_scan"
      [] OTHER -> "read"

\* The table after the whole call, run alone on the table t.
RunAlone(t, call) ==
    CASE call.op = "add_member" ->
            add_member(t, call.c.uuid, call.c.name, call.c.containertype,
                       call.c.location).table
      [] call.op = "del_member" -> del_member(t, call.args, call.purge).table
      [] OTHER -> t

\* The decorator's entry: acquire access, then enter the method body.
Begin(p, call) ==
    /\ pc[p] = "idle"
    /\ MayAcquire(p, TransactionOf(call.op))
    /\ access' = [access EXCEPT ![p] = AccessOf(TransactionOf(call.op))]
    /\ frame' = [frame EXCEPT ![p] = [call EXCEPT !.saved = table]]
    /\ pc' = [pc EXCEPT ![p] = Entry(call.op)]
    /\ UNCHANGED <<table, committed, serial>>
    /\ UNCHANGED <<svars, cvars>>

\* add_member: index = [...]
AddCheck(p) ==
    /\ pc[p] = "add_check"
    /\ frame' = [frame EXCEPT ![p].index = MatchingIndex(table, frame[p].c.uuid)]
    /\ pc' = [pc EXCEPT ![p] = "add_write"]
    /\ UNCHANGED <<table, access, committed, serial>>
    /\ UNCHANGED <<svars, cvars>>

\* add_member: if index: self.table[index][...] = ... (TypeError)
\* else: self.table.append(newmem)
AddWrite(p) ==
    /\ pc[p] = "add_write"
    /\ IF frame[p].index # <<>>
       THEN /\ pc' = [pc EXCEPT ![p] = "raised"]
            /\ UNCHANGED table
       ELSE /\ Len(table) < MaxRows
            /\ table' = AppendMember(table,
                            NewMem(frame[p].c.uuid, frame[p].c.name,
                                   frame[p].c.containertype, frame[p].c.location))
            /\ pc' = [pc EXCEPT ![p] = "return"]
    /\ UNCHANGED <<access, frame, committed, serial>>
    /\ UNCHANGED <<svars, cvars>>

\* del_member up to the loop: the purge branch, the matching rows, the
\* branch for removing every row, rowlist.sort() and j = 0.
DelScan(p) ==
    /\ pc[p] = "del_scan"
    /\ LET rowlist == RowList(table, UuidSet(frame[p].args))
       IN IF frame[p].purge \/ AllRowsMatch(rowlist, table)
          THEN /\ table' = RecreateTable(table)
               /\ pc' = [pc EXCEPT ![p] = "return"]
               /\ UNCHANGED frame
          ELSE /\ frame' = [frame EXCEPT ![p].rowlist = SortAsc(rowlist), ![p].j = 0]
               /\ pc' = [pc EXCEPT ![p] = "del_loop"]
               /\ UNCHANGED table
    /\ UNCHANGED <<access, committed, serial>>
    /\ UNCHANGED <<svars, cvars>>

\* del_member: one round of the loop, table.remove_row(i-j); j=j+1
DelLoop(p) ==
    /\ pc[p] = "del_loop"
    /\ IF frame[p].j >= Len(frame[p].rowlist)
       THEN /\ pc' = [pc EXCEPT ![p] = "return"]
            /\ UNCHANGED <<table, frame>>
       ELSE LET i == frame[p].rowlist[frame[p].j + 1]
                r == RemoveRow(table, ShiftedIndex(i, frame[p].j))
            IN /\ table' = r.table
               /\ frame' = [frame EXCEPT ![p].j = frame[p].j + 1]
               /\ pc' = [pc EXCEPT ![p] = IF r.raised # "none" THEN "raised"
                                          ELSE "del_loop"]
    /\ UNCHANGED <<access, committed, serial>>
    /\ UNCHANGED <<svars, cvars>>

\* del_member: table.remove_row(i-j) fails on the store (an error of the
\* HDF5 file) and the exception leaves del_member.
RemoveRowFails(p) ==
    /\ pc[p] = "del_loop"
    /\ frame[p].j < Len(frame[p].rowlist)
    /\ pc' = [pc EXCEPT ![p] = "raised"]
    /\ UNCHANGED <<table, access, frame, committed, serial>>
    /\ UNCHANGED <<svars, cvars>>

\* The body of get_member or of a get_members_* method.
ReadBody(p) ==
    /\ pc[p] = "read"
    /\ frame' = [frame EXCEPT ![p].ret =
            CASE frame[p].op = "get_member" -> get_member(table, frame[p].arg).ret
              [] frame[p].op = "get_members_uuid" -> get_members_uuid(table)
              [] frame[p].op = "get_members_name" -> get_members_name(table)
              [] frame[p].op = "get_members_containertype" ->
                    get_members_containertype(table)
              [] frame[p].op = "get_members_location" -> get_members_location(table)]
    /\ pc' = [pc EXCEPT ![p] = "return"]
    /\ UNCHANGED <<table, access, committed, serial>>
    /\ UNCHANGED <<svars, cvars>>

\* A mutant of Restored: a write transaction whose body raised keeps the
\* changes the body had made.
RestoredNever(p) == table

\* The table a transaction leaves in the store: what it was when the
\* transaction began if the body of a write transaction raised, the table
\* as the body left it otherwise.
Restored(p) ==
    IF pc[p] = "raised" /\ TransactionOf(frame[p].op) = "write"
    THEN frame[p].saved
    ELSE table

\* A mutant of Released: access is kept when the body raised.
ReleasedOnReturnOnly(p) == IF pc[p] = "raised" THEN access[p] ELSE "none"

\* The access a process holds after the decorator's exit.
Released(p) == "none"

\* The decorator's exit, after the body returned or raised: release access.
End(p) ==
    /\ pc[p] \in {"return", "raised"}
    /\ access' = [access EXCEPT ![p] = Released(p)]
    /\ table' = Restored(p)
    /\ committed' = IF Mutating(frame[p].op)
                    THEN [table |-> table', op |-> frame[p].op,
                          removed |-> UuidsOf(committed.table) \ UuidsOf(table'),
                          failed |-> pc[p] = "raised",
                          partial |-> pc[p] = "raised" /\ table # frame[p].saved]
                    ELSE committed
    /\ serial' = IF Mutating(frame[p].op) /\ pc[p] = "return"
                 THEN RunAlone(serial, frame[p]) ELSE serial
    /\ frame' = [frame EXCEPT ![p] = NoFrame]
    /\ pc' = [pc EXCEPT ![p] = "idle"]
    /\ UNCHANGED <<svars, cvars>>

NextDurable ==
    \/ \E p \in Procs, call \in DurableCalls : Begin(p, call)
    \/ \E p \in Procs : AddCheck(p)
    \/ \E p \in Procs : AddWrite(p)
    \/ \E p \in Procs : DelScan(p)
    \/ \E p \in Procs : DelLoop(p)
    \/ \E p \in Procs : RemoveRowFails(p)
    \/ \E p \in Procs : ReadBody(p)
    \/ \E p \in Procs : End(p)

SpecDurable == Init /\ [][NextDurable]_vars

\* ------------------------------------------------------------------------
\* Properties of the durable form (checked under SpecDurable)
\* ------------------------------------------------------------------------

\* The process p is inside the body of a mutating call, or has left the
\* body and not yet released its access.
InMutation(p) == frame[p].op \in {"add_member", "del_member"}

\* C9: a mutating call holds exclusive access to the store from before its
\* first change until after its last one, so mutating calls of different
\* processes never interleave, and once they are finished the table is the
\* one that running them one after another produces.
C9_WritesSerialize ==
    /\ \A p \in Procs :
        InMutation(p)
        => /\ access[p] = "exclusive"
           /\ \A q \in Procs \ {p} : access[q] = "none" /\ ~InMutation(q)
    /\ (\A p \in Procs : ~InMutation(p)) => table = serial

\* A del_member is between two row removals, holding the store, after
\* another mutating call had committed rows.
C9_Witness ==
    /\ \E p \in Procs :
        /\ pc[p] = "del_loop"
        /\ frame[p].j = 1
        /\ Len(frame[p].rowlist) = 2
        /\ access[p] = "exclusive"
    /\ committed.op = "add_member"
    /\ Len(committed.table) = 3
    /\ Len(table) = 2

\* What a read call returns on the table t.
Expected(call, t) ==
    CASE call.op = "get_member" ->
            (LET Is(row) == row.uuid = call.arg.text
                 rows == SelectSeq(t, Is)
             IN IF rows = <<>> THEN <<>> ELSE <<rows[1]>>)
      [] call.op = "get_members_uuid" -> [i \in 1..Len(t) |-> t[i].uuid]
      [] call.op = "get_members_name" -> [i \in 1..Len(t) |-> t[i].name]
      [] call.op = "get_members_containertype" ->
            [i \in 1..Len(t) |-> t[i].containertype]
      [] call.op = "get_members_location" -> [i \in 1..Len(t) |-> t[i].abspath]

\* C10: a read call returns what the table held when the last finished
\* mutating call released the store: it never sees some of the rows of a
\* del_member removed and others not, and never a uuid twice.
C10_ReadsCommitted ==
    \A p \in Procs :
        (frame[p].op \in ReadOps)
        => /\ table = committed.table
           /\ pc[p] = "return"
               => /\ frame[p].ret = Expected(frame[p], committed.table)
                  /\ frame[p].op = "get_members_uuid"
                      => \A i, j \in 1..Len(frame[p].ret) :
                            i # j => frame[p].ret[i] # frame[p].ret[j]

\* get_members_uuid has returned the one row that a del_member of two rows
\* left.
C10_Witness ==
    /\ committed.op = "del_member"
    /\ Cardinality(committed.removed) = 2
    /\ \E p \in Procs :
        /\ pc[p] = "return"
        /\ frame[p].op = "get_members_uuid"
        /\ Len(frame[p].ret) = 1

\* The steps of the process p once its call has begun.
Step(p) ==
    \/ AddCheck(p)
    \/ AddWrite(p)
    \/ DelScan(p)
    \/ DelLoop(p)
    \/ RemoveRowFails(p)
    \/ ReadBody(p)
    \/ End(p)

\* Calls are synchronous: a process that has begun a call runs it to its
\* end.
SpecDurableFair == SpecDurable /\ \A p \in Procs : WF_vars(Step(p))

\* C11: an operation that acquired read or write access releases it, whether
\* its body returns or raises: a process that is not in a call holds no
\* access, and access that is held is released in the end, so that each
\* process is without access again and again.
C11_AccessReleased ==
    /\ [](\A p \in Procs : pc[p] = "idle" => access[p] = "none")
    /\ \A p \in Procs : []<>(access[p] = "none")

\* A write transaction has ended with an exception, and the process that
\* ran it holds no access.
C11_Witness ==
    /\ committed.failed
    /\ \A p \in Procs : pc[p] = "idle" /\ access[p] = "none"

\* C12: when a mutating call fails part-way, the store is afterwards as it
\* was before the call began: none of its changes is committed.
C12_FailureCommitsNothing ==
    [][\A p \in Procs :
            (pc[p] = "raised" /\ InMutation(p) /\ pc'[p] = "idle")
            => table' = committed.table /\ committed'.table = committed.table]_vars

\* A del_member failed after it had removed a row, and the three rows are
\* in the store again.
C12_Witness ==
    /\ committed.op = "del_member"
    /\ committed.failed
    /\ committed.partial
    /\ Len(table) = 3
    /\ table = committed.table

\* C18: in del_member's loop the rows that matched are visited in ascending
\* order, each once, and the j-th removal, at i-j, names a row of the
\* table as it is then, which is the row that was at i when the call began.
C18_ShiftedIndexValid ==
    \A p \in Procs :
        (pc[p] = "del_loop" /\ frame[p].j < Len(frame[p].rowlist))
        => LET rowlist == frame[p].rowlist
               j == frame[p].j
               i == rowlist[j + 1]
               n == ShiftedIndex(i, j)
           IN /\ \A a, b \in 1..Len(rowlist) : a < b => rowlist[a] < rowlist[b]
              /\ Len(rowlist) < Len(frame[p].saved)
              /\ 0 <= n /\ n < Len(table)
              /\ table[n + 1] = frame[p].saved[i + 1]

\* del_member is given two uuids; the first and the third of three rows
\* match, the first has been removed and the loop is about to remove the
\* third, now the second row.
C18_Witness ==
    \E p \in Procs :
        /\ pc[p] = "del_loop"
        /\ Len(frame[p].saved) = 3
        /\ frame[p].rowlist = <<0, 2>>
        /\ frame[p].j = 1
        /\ Len(table) = 2

\* ------------------------------------------------------------------------
\* The collections: Bundle.add, Bundle._list and _CollectionBase.add
\*
\* Bundle does not derive from _CollectionBase and Bundle.add never calls
\* the backend; _CollectionBase.add never touches _uuids or _containers.
\* The object is therefore of one of two classes: a Bundle, whose members
\* are self._containers, or a collection that uses _CollectionBase.add
\* (aggregators.Members), whose members are the rows of the table of its
\* backend.  Bundle.__init__ assigns neither _uuids nor _containers, so a
\* Bundle has them only when they were assigned from outside the class; a
\* Bundle without them is the object on which __init__ calls self.add.
\* ------------------------------------------------------------------------

\* The container objects handed to add: A and A2 are two handles of the
\* container u1, B and C are the containers u2 and u3.
A == [uuid |-> "u1", name |-> "n1", containertype |-> "Sim", location |-> "./data"]
A2 == [uuid |-> "u1", name |-> "n1", containertype |-> "Sim", location |-> "/abs/data"]
B == [uuid |-> "u2", name |-> "n2", containertype |-> "Group", location |-> "./data"]
C == [uuid |-> "u3", name |-> "n2", containertype |-> "Group", location |-> "./data"]

\* The items of an add call, by type: a Sim or Group object, a list, a
\* tuple, another Bundle (with the containers it holds), a string, None.
Obj(c) == [kind |-> "Container", c |-> c, items |-> <<>>, path |-> ""]
ListOf(items) == [kind |-> "list", c |-> NoContainer, items |-> items, path |-> ""]
TupleOf(items) == [kind |-> "tuple", c |-> NoContainer, items |-> items, path |-> ""]
BundleOf(items) == [kind |-> "Bundle", c |-> NoContainer, items |-> items, path |-> ""]
PathStr(path) == [kind |-> "str", c |-> NoContainer, items |-> <<>>, path |-> path]
None == [kind |-> "NoneType", c |-> NoContainer, items |-> <<>>, path |-> ""]

\* The directories of the file system: "/proj" holds the state files of B
\* and C, "/empty" holds none, and no other path exists.
ExistingPaths == {"/proj", "/empty"}

\* filesystem.path2container(path): the containers whose state files the
\* directory holds.
path2container(path) == IF path = "/proj" THEN <<B, C>> ELSE <<>>

\* A mutant of OsPathExists: a path that does not exist raises, as os.stat
\* does.
OsPathStat(container) ==
    IF container.kind # "str" THEN "TypeError"
    ELSE IF container.path \in ExistingPaths THEN "True"
    ELSE "OSError"

\* os.path.exists(container), reached by every item that is no list and no
\* container object: True or False for a string, TypeError for None, a
\* tuple or a Bundle.
OsPathExists(container) ==
    IF container.kind # "str" THEN "TypeError"
    ELSE IF container.path \in ExistingPaths THEN "True"
    ELSE "False"

\* The argument tuples of the add calls.
AddCalls ==
    { <<>>,
      <<Obj(A)>>, <<Obj(B)>>, <<Obj(C)>>, <<Obj(A2)>>,
      <<Obj(A), Obj(A)>>,
      <<Obj(B), Obj(A)>>,
      <<Obj(A), ListOf(<<Obj(B)>>), Obj(C)>>,
      <<ListOf(<<Obj(A), ListOf(<<Obj(B)>>)>>)>>,
      <<ListOf(<<ListOf(<<ListOf(<<Obj(C)>>)>>)>>)>>,
      <<ListOf(<<Obj(B), Obj(C)>>)>>,
      <<ListOf(<<>>)>>,
      <<TupleOf(<<Obj(A)>>)>>,
      <<Obj(C), TupleOf(<<Obj(A), ListOf(<<Obj(B)>>)>>)>>,
      <<BundleOf(<<Obj(B)>>)>>,
      <<Obj(A), BundleOf(<<Obj(B), Obj(C)>>)>>,
      <<PathStr("/proj")>>,
      <<Obj(B), PathStr("/proj")>>,
      <<PathStr("/empty")>>,
      <<PathStr("/missing")>>,
      <<Obj(A), PathStr("/missing")>>,
      <<PathStr("/missing"), Obj(C)>>,
      <<Obj(A), ListOf(<<PathStr("/missing"), Obj(B)>>)>>,
      <<None>>,
      <<Obj(A), None>>,
      <<None, Obj(C)>>,
      <<ListOf(<<Obj(B), None>>)>> }

\* The result of a call that raises the exception e on the object obj.
Raise(obj, e) == [self |-> obj, raised |-> e]

\* uuid = cont.uuid; if not (uuid in self._uuids): outconts.append(cont);
\* self._uuids.append(uuid), for each of conts from the k-th on.  st holds
\* self._uuids and outconts.
RECURSIVE AddUnseen(_, _, _)
AddUnseen(st, conts, k) ==
    IF k > Len(conts) THEN st
    ELSE IF conts[k].uuid \in Range(st.uuids)
    THEN AddUnseen(st, conts, k + 1)
    ELSE AddUnseen([uuids |-> Append(st.uuids, conts[k].uuid),
                    outconts |-> Append(st.outconts, conts[k])], conts, k + 1)

\* Bundle.add(*containers) from the k-th item on, with outconts as the loop
\* has built it.  A list is added by a call of its own, which extends
\* self._containers before it returns; a container object or the containers
\* of an existing path go to outconts unless their uuid is in self._uuids;
\* self._containers.extend(outconts) ends the call.  An exception leaves
\* self._uuids as the loop has extended it and drops outconts.
RECURSIVE Bundle_add(_, _, _, _)
Bundle_add(obj, containers, k, outconts) ==
    IF k > Len(containers)
    THEN IF obj.has_lists
         THEN [self |-> [obj EXCEPT !.containers = @ \o outconts], raised |-> "none"]
         ELSE Raise(obj, "AttributeError")
    ELSE LET container == containers[k]
             exists == OsPathExists(container)
             conts == IF container.kind = "Container" THEN <<container.c>>
                      ELSE path2container(container.path)
             st == AddUnseen([uuids |-> obj.uuids, outconts |-> outconts], conts, 1)
             inner == Bundle_add(obj, container.items, 1, <<>>)
         IN IF container.kind = "list"
            THEN IF inner.raised # "none" THEN inner
                 ELSE Bundle_add(inner.self, containers, k + 1, outconts)
            ELSE IF container.kind = "Container" \/ exists = "True"
            THEN IF conts # <<>> /\ ~obj.has_lists
                 THEN Raise(obj, "AttributeError")
                 ELSE Bundle_add([obj EXCEPT !.uuids = st.uuids], containers, k + 1,
                                 st.outconts)
            ELSE IF exists = "False"
            THEN Bundle_add(obj, containers, k + 1, outconts)
            ELSE Raise(obj, exists)

\* A mutant of Bundle_list: the list of the object itself is returned.
Bundle_list_live(containers) == [items |-> containers, same |-> TRUE]

\* Bundle._list(): list(self._containers), a new list with the same
\* elements.
Bundle_list(containers) == [items |-> containers, same |-> FALSE]

\* for container in outconts: self.backend.add_member(container.uuid, ...)
RECURSIVE AddMembers(_, _, _)
AddMembers(t, outconts, k) ==
    IF k > Len(outconts) THEN [table |-> t, raised |-> "none"]
    ELSE LET r == add_member(t, outconts[k].uuid, outconts[k].name,
                             outconts[k].containertype, outconts[k].location)
         IN IF r.raised # "none" THEN r ELSE AddMembers(r.table, outconts, k + 1)

\* _CollectionBase.add(*containers) from the k-th item on.  A list or a
\* tuple is added by a call of its own, which reaches the backend before
\* the items around it do; self.add(*container) of a Bundle raises
\* TypeError, a Bundle being no iterable; nothing is compared with the
\* members already there.
RECURSIVE CollectionBase_add(_, _, _, _)
CollectionBase_add(t, containers, k, outconts) ==
    IF k > Len(containers) THEN AddMembers(t, outconts, 1)
    ELSE LET container == containers[k]
             exists == OsPathExists(container)
             inner == CollectionBase_add(t, container.items, 1, <<>>)
         IN IF container.kind \in {"list", "tuple"}
            THEN IF inner.raised # "none" THEN inner
                 ELSE CollectionBase_add(inner.table, containers, k + 1, outconts)
            ELSE IF container.kind = "Bundle"
            THEN [table |-> t, raised |-> "TypeError"]
            ELSE IF container.kind = "Container"
            THEN CollectionBase_add(t, containers, k + 1, Append(outconts, container.c))
            ELSE IF exists = "True"
            THEN CollectionBase_add(t, containers, k + 1,
                                    outconts \o path2container(container.path))
            ELSE IF exists = "False"
            THEN CollectionBase_add(t, containers, k + 1, outconts)
            ELSE [table |-> t, raised |-> exists]

\* The objects add is called on: a Bundle as __init__ leaves it, a Bundle
\* whose _uuids and _containers are empty lists, and a collection that uses
\* _CollectionBase.add.
Objects ==
    { Constructed,
      [Constructed EXCEPT !.has_lists = TRUE],
      [Constructed EXCEPT !.cls = "Members"] }

InitBundle ==
    /\ InitBackend
    /\ self \in Objects
    /\ coll = [NoCollCall EXCEPT !.before = self]
    /\ returned = NoReturned

\* The record kept of a call on the collection.
CollCall(op, items, raised) ==
    [op |-> op, items |-> items, raised |-> raised, before |-> self, tbefore |-> table]

\* bundle.add(*items)
BundleAdd(items) ==
    /\ self.cls = "Bundle"
    /\ LET r == Bundle_add(self, items, 1, <<>>)
       IN /\ self' = r.self
          /\ coll' = CollCall("add", items, r.raised)
    /\ returned' = NoReturned
    /\ UNCHANGED <<table, svars, dvars>>

\* members.add(*items), the add of _CollectionBase
CollectionBaseAdd(items) ==
    /\ self.cls = "Members"
    /\ LET r == CollectionBase_add(table, items, 1, <<>>)
       IN /\ table' = r.table
          /\ coll' = CollCall("add", items, r.raised)
    /\ UNCHANGED <<self, returned, svars, dvars>>

\* bundle._list()
BundleList ==
    /\ self.cls = "Bundle"
    /\ IF self.has_lists
       THEN /\ returned' = [valid |-> TRUE,
                            items |-> Bundle_list(self.containers).items,
                            same |-> Bundle_list(self.containers).same,
                            original |-> self.containers,
                            mutated |-> FALSE]
            /\ coll' = CollCall("_list", <<>>, "none")
       ELSE /\ returned' = NoReturned
            /\ coll' = CollCall("_list", <<>>, "AttributeError")
    /\ UNCHANGED <<self, table, svars, dvars>>

\* What a caller does to the list it was given.
Mutations == {"append", "pop", "reverse"}

Reverse(s) == [i \in 1..Len(s) |-> s[Len(s) + 1 - i]]

\* lst.append(A2), lst.pop(0) or lst.reverse() on the list lst.
Mutated(lst, how) ==
    CASE how = "append" -> Append(lst, A2)
      [] how = "pop" -> IF lst = <<>> THEN lst ELSE Tail(lst)
      [] how = "reverse" -> Reverse(lst)

\* The caller changes the list that _list() returned; a list that is the
\* object's own changes the object.
MutateReturned(how) ==
    /\ returned.valid
    /\ ~returned.mutated
    /\ returned' = [returned EXCEPT !.items = Mutated(returned.items, how),
                                    !.mutated = TRUE]
    /\ self' = IF returned.same
               THEN [self EXCEPT !.containers = Mutated(returned.items, how)]
               ELSE self
    /\ coll' = CollCall("caller", <<>>, "none")
    /\ UNCHANGED <<table, svars, dvars>>

NextBundle ==
    \/ \E items \in AddCalls : BundleAdd(items)
    \/ \E items \in AddCalls : CollectionBaseAdd(items)
    \/ BundleList
    \/ \E how \in Mutations : MutateReturned(how)

SpecBundle == InitBundle /\ [][NextBundle]_vars

\* ------------------------------------------------------------------------
\* Properties of the collections
\* ------------------------------------------------------------------------

\* The uuids of a sequence of containers, in order.
IdsOf(conts) == [i \in 1..Len(conts) |-> conts[i].uuid]

\* The uuids of the members of the object, in order: of self._containers
\* for a Bundle, of the rows of the backend's table otherwise.
MemberIds(obj, t) ==
    IF obj.cls = "Bundle" THEN IdsOf(obj.containers) ELSE get_members_uuid(t)

NoDuplicates(s) == \A a, b \in 1..Len(s) : a # b => s[a] # s[b]

\* The object has what its add needs: a Bundle its two lists.
Usable(obj) == obj.cls = "Members" \/ obj.has_lists

\* The containers the items name, read left to right and depth first: a
\* container object itself, the items of a list, a tuple or a Bundle, the
\* containers of an existing path.
RECURSIVE Reachable(_)
Reachable(items) ==
    IF items = <<>> THEN <<>>
    ELSE LET item == Head(items)
             first == CASE item.kind = "Container" -> <<item.c>>
                        [] item.kind \in {"list", "tuple", "Bundle"} ->
                                Reachable(item.items)
                        [] item.kind = "str" /\ item.path \in ExistingPaths ->
                                path2container(item.path)
                        [] OTHER -> <<>>
         IN first \o Reachable(Tail(items))

\* The containers of conts whose uuid is not in seen, each at its first
\* occurrence.
RECURSIVE NewInOrder(_, _)
NewInOrder(conts, seen) ==
    IF conts = <<>> THEN <<>>
    ELSE IF Head(conts).uuid \in seen THEN NewInOrder(Tail(conts), seen)
    ELSE <<Head(conts)>> \o NewInOrder(Tail(conts), seen \cup {Head(conts).uuid})

\* The types of the items, at every depth.
RECURSIVE Kinds(_)
Kinds(items) ==
    UNION {{items[k].kind} \cup Kinds(items[k].items) : k \in 1..Len(items)}

\* The items without the strings that name no existing path and, with
\* dropNone, without None, at every depth.
RECURSIVE Without(_, _)
Without(items, dropNone) ==
    IF items = <<>> THEN <<>>
    ELSE LET item == Head(items)
             rest == Without(Tail(items), dropNone)
         IN IF \/ item.kind = "str" /\ item.path \notin ExistingPaths
               \/ dropNone /\ item.kind = "NoneType"
            THEN rest
            ELSE <<[item EXCEPT !.items = Without(@, dropNone)]>> \o rest

\* How add(*items) ends on the object obj with the table t.
Outcome(obj, t, items) ==
    IF obj.cls = "Bundle"
    THEN LET r == Bundle_add(obj, items, 1, <<>>)
         IN [self |-> r.self, table |-> t, raised |-> r.raised]
    ELSE LET r == CollectionBase_add(t, items, 1, <<>>)
         IN [self |-> obj, table |-> r.table, raised |-> r.raised]

\* How the most recent call ended.
Ended == [self |-> self, table |-> table, raised |-> coll.raised]

\* C13: when add has returned, the containers its items name are members,
\* and the uuids of the member sequence, the seen uuids and the uuids of
\* the rows of the backend's table are the same.
C13_MembersSeenTableAgree ==
    (coll.op = "add" /\ coll.raised = "none")
    => /\ Range(IdsOf(Reachable(coll.items))) \subseteq Range(IdsOf(self.containers))
       /\ Range(IdsOf(self.containers)) = Range(self.uuids)
       /\ Range(self.uuids) = UuidsOf(table)

\* C14: an add of container objects of which one is a member already, or
\* is given twice, raises nothing, keeps the members there were in their
\* order, adds nothing when all were members, and leaves no uuid twice
\* among the members.
C14_AddIdempotent ==
    LET ids == IdsOf(Reachable(coll.items))
        was == MemberIds(coll.before, coll.tbefore)
        now == MemberIds(self, table)
    IN (/\ coll.op = "add"
        /\ Usable(coll.before)
        /\ Kinds(coll.items) = {"Container"}
        /\ (Range(ids) \cap Range(was) # {} \/ ~NoDuplicates(ids)))
       => /\ coll.raised = "none"
          /\ Len(now) >= Len(was)
          /\ SubSeq(now, 1, Len(was)) = was
          /\ (Range(ids) \subseteq Range(was) => now = was)
          /\ NoDuplicates(now)

\* C15: an add whose items are container objects, lists, tuples and other
\* Bundles, nested to any depth, returns, and every container the items
\* name is then a member, once.
C15_NestedItemsAdded ==
    LET ids == IdsOf(Reachable(coll.items))
        was == MemberIds(coll.before, coll.tbefore)
        now == MemberIds(self, table)
    IN (/\ coll.op = "add"
        /\ Usable(coll.before)
        /\ Kinds(coll.items) \subseteq {"Container", "list", "tuple", "Bundle"}
        /\ Kinds(coll.items) \cap {"list", "tuple", "Bundle"} # {}
        /\ NoDuplicates(ids)
        /\ Range(ids) \cap Range(was) = {})
       => /\ coll.raised = "none"
          /\ Range(ids) \subseteq Range(now)
          /\ NoDuplicates(now)

\* C16, as the code has it: a string that names no existing path is passed
\* over.  The call ends as the same call without such strings ends: the
\* same members, seen uuids and table, and the same exception if any.
C16_MissingPathDropped ==
    coll.op = "add" => Ended = Outcome(coll.before, coll.tbefore, Without(coll.items, FALSE))

\* An add of A and of a path that does not exist has returned on a Bundle
\* that held B, and A is a member after B.
C16_Witness ==
    /\ coll.op = "add"
    /\ coll.items = <<Obj(A), PathStr("/missing")>>
    /\ coll.raised = "none"
    /\ coll.before.containers = <<B>>
    /\ self.containers = <<B, A>>

\* C16, as it is claimed: an item that is no container object, no list or
\* collection and no existing path is passed over.  The call ends as the
\* same call without such items ends, whether the item is a string or
\* None.
C16_UnrecognisedDropped ==
    (coll.op = "add" /\ Usable(coll.before))
    => Ended = Outcome(coll.before, coll.tbefore, Without(coll.items, TRUE))

\* C17: the list _list() returns holds the members in their order, and
\* what the caller does to it changes neither self._containers nor what
\* _list() returns next.
C17_ListIsCopy ==
    returned.valid
    => /\ ~returned.mutated => returned.items = self.containers
       /\ self.containers = returned.original
       /\ Bundle_list(self.containers).items = returned.original

\* The caller has changed the list it was given for a Bundle of two or
\* more members.
C17_Witness ==
    /\ returned.valid
    /\ returned.mutated
    /\ Len(returned.original) >= 2
    /\ returned.items # returned.original
    /\ self.containers = returned.original

\* C19: after an add that returned, self._uuids and self._containers are
\* as long as each other and the i-th seen uuid is the uuid of the i-th
\* member.
C19_SeenParallelMembers ==
    (self.cls = "Bundle" /\ coll.op = "add" /\ coll.raised = "none")
    => self.uuids = IdsOf(self.containers)

\* C20: an add that returned has appended to the members the containers
\* its items name that were no members, in the order of their first
\* occurrence, left to right and depth first: add(A, [B], C) on an empty
\* collection gives A, B, C.
C20_DepthFirstOrder ==
    LET was == MemberIds(coll.before, coll.tbefore)
    IN (coll.op = "add" /\ coll.raised = "none")
       => MemberIds(self, table) =
              was \o IdsOf(NewInOrder(Reachable(coll.items), Range(was)))

====
